---- MODULE Spec2Model ----
(***************************************************************************)
(* Model of scripts/point_cloud_process.py: one process run of main()      *)
(* dispatching to op_segment_planes, the iterative RANSAC plane            *)
(* segmentation.  Spec runs it against a plane-fitting provider that may   *)
(* return anything; SpecScene runs it on the scan of a scene of planes,    *)
(* with the provider's best-of-trials plane fit, and then once more on the *)
(* residual points.  SpecFloors is a run of op_extract_floors, the          *)
(* histogram clustering of floor elevations.  SpecSection is a run of      *)
(* scripts/model_section.py, the section cut through a mesh.  Each has its *)
(* own section below, with its own representation of the input.            *)
(* SpecEntryPoints is any run of either script, for the properties of      *)
(* their responses.                                                        *)
(*                                                                         *)
(* Representation.  A point cloud is the array of its points.  Points are  *)
(* identified by the position 1..N they have in the scan; an array         *)
(* is written as the ascending sequence of the maximal id intervals        *)
(* <<lo, hi>> it holds (the array [1,2,3,7,8] is << <<1,3>>, <<7,8>> >>).   *)
(* An index list (inlier_indices) is written the same way over 0-based     *)
(* array positions.  Real numbers are scaled integers: a normal component  *)
(* is in tenths, inlier_ratio is in ten-thousandths (round(x, 4)).         *)
(***************************************************************************)
EXTENDS Integers, Sequences, FiniteSets, TLC

VARIABLES
    pc,             \* position of the run
    file_exists,    \* os.path.isfile(file_path)
    operation,      \* args["operation"]
    pcd,            \* the loaded cloud (array), Unset before loading
    total_points,   \* len(pcd.points)
    remaining,      \* the cloud still to be segmented
    planes,         \* the PlaneRecords appended so far
    i,              \* loop variable of `for i in range(max_planes)`
    min_inliers,    \* acceptance threshold of this run
    inlier_clouds,  \* inlier_cloud of each appended record, in order
    fit_calls,      \* len(remaining.points) at each segment_plane call
    rejected,       \* points of the plane whose rejection ended the loop
    stop_reason,    \* why the loop ended
    stdout,         \* JSON objects printed to stdout
    stderr,         \* JSON objects printed to stderr
    saved,          \* the result was written to output_path
    scene,          \* the planes of the scanned scene: normal and points within
                    \* plane_threshold of each
    trials_left,    \* candidate planes the running plane fit has yet to evaluate
    best,           \* best candidate of the running plane fit so far
    run,            \* 1: the run on the scan, 2: the run on its residual
    first_run,      \* outcome of run 1, kept for run 2
    points,         \* extract_floors: the loaded points, as elevation levels
    horizontal_z,   \* elevations of the points with a near-vertical normal
    hist,           \* np.histogram counts of horizontal_z
    min_peak_count, \* acceptance threshold of a histogram bin
    floors,         \* the floor records built so far
    mesh,           \* model_section: the loaded mesh, its triangles
    cut_plane,      \* args["cut_plane"]
    output_format,  \* args["output_format"]
    cut_calls,      \* number of mesh_plane calls made
    sections,       \* the 2D segments returned by the section function
    bbox,           \* bounding box computed by main()
    out_dir,        \* the output directory exists
    written,        \* which writer wrote the output file
    drawing,        \* width and height _write_svg scales the drawing by
    cut_failed      \* mesh_plane raised and the section function caught it

vars == <<pc, file_exists, operation, pcd, total_points, remaining, planes, i,
          min_inliers, inlier_clouds, fit_calls, rejected, stop_reason,
          stdout, stderr, saved, scene, trials_left, best, run, first_run,
          points, horizontal_z, hist, min_peak_count, floors,
          mesh, cut_plane, output_format, cut_calls, sections, bbox, out_dir,
          written, drawing, cut_failed>>

request == <<file_exists, operation>>
fitting == <<scene, trials_left, best>>
rerun   == <<run, first_run>>
\* state of op_extract_floors, and of model_section.py
clustering == <<points, horizontal_z, hist, min_peak_count, floors>>
cutting == <<mesh, cut_plane, output_format, cut_calls, sections, bbox, out_dir,
             written, drawing, cut_failed>>

----------------------------------------------------------------------------
(* Bounds of the model *)

\* loaded clouds have 50*k points, k in 0..MaxSmall, or 10000 + 5050*k points,
\* k in 0..MaxLarge (the latter make 1% of the cloud exceed 100)
MaxSmall == 23
MaxLarge == 1
\* a scene has at most MaxScenePlanes planes
MaxScenePlanes == 2

(* Constants of the program *)

max_planes == 10
MinInliersFloor == 100
PercentDivisor == 100      \* total_points * 0.01
NzCut == 8                 \* 0.8, in tenths

----------------------------------------------------------------------------
(* Arrays of points and index lists *)

Max(a, b) == IF a >= b THEN a ELSE b
Min(a, b) == IF a <= b THEN a ELSE b
Abs(x) == IF x < 0 THEN -x ELSE x

RECURSIVE NumPoints(_)
NumPoints(arr) ==
    IF arr = <<>> THEN 0
    ELSE (Head(arr)[2] - Head(arr)[1] + 1) + NumPoints(Tail(arr))

RECURSIVE Take(_, _)
Take(arr, n) ==
    IF n <= 0 \/ arr = <<>> THEN <<>>
    ELSE LET h == Head(arr)
             sz == h[2] - h[1] + 1
         IN IF n >= sz THEN <<h>> \o Take(Tail(arr), n - sz)
            ELSE << <<h[1], h[1] + n - 1>> >>

RECURSIVE Drop(_, _)
Drop(arr, n) ==
    IF arr = <<>> THEN <<>>
    ELSE IF n <= 0 THEN arr
    ELSE LET h == Head(arr)
             sz == h[2] - h[1] + 1
         IN IF n >= sz THEN Drop(Tail(arr), n - sz)
            ELSE << <<h[1] + n, h[2]>> >> \o Tail(arr)

\* the points at array positions p..q (0-based, inclusive)
Slice(arr, p, q) == Take(Drop(arr, p), q - p + 1)

RECURSIVE Gather(_, _)
Gather(arr, idx) ==
    IF idx = <<>> THEN <<>>
    ELSE Slice(arr, Head(idx)[1], Head(idx)[2]) \o Gather(arr, Tail(idx))

\* the positions from..n-1 that idx does not list
RECURSIVE OtherIndices(_, _, _)
OtherIndices(idx, from, n) ==
    IF idx = <<>> THEN (IF from <= n - 1 THEN << <<from, n - 1>> >> ELSE <<>>)
    ELSE LET h == Head(idx)
         IN (IF from < h[1] THEN << <<from, h[1] - 1>> >> ELSE <<>>)
            \o OtherIndices(Tail(idx), h[2] + 1, n)

select_by_index_NoInvert(cloud, indices, invert) == Gather(cloud, indices)

\* PointCloud.select_by_index(indices, invert)
select_by_index(cloud, indices, invert) ==
    IF invert THEN Gather(cloud, OtherIndices(indices, 0, NumPoints(cloud)))
    ELSE Gather(cloud, indices)

Overlap(arr1, arr2) ==
    \E j \in 1..Len(arr1), k \in 1..Len(arr2) :
        Max(arr1[j][1], arr2[k][1]) <= Min(arr1[j][2], arr2[k][2])

WholeCloud(n) == IF n = 0 THEN <<>> ELSE << <<1, n>> >>

\* no cloud is loaded yet (point ids start at 1)
Unset == << <<0, 0>> >>

----------------------------------------------------------------------------
(* op_segment_planes: the pure parts *)

MinInliers_NoFloor(total) == total \div PercentDivisor

MinInliers(total) == Max(MinInliersFloor, total \div PercentDivisor)

Classify_Inclusive(c) ==
    IF Abs(c) >= NzCut
    THEN [orientation |-> "horizontal",
          sub_type |-> IF c > 0 THEN "floor" ELSE "ceiling"]
    ELSE [orientation |-> "vertical", sub_type |-> "wall"]

Classify(c) ==
    IF Abs(c) > NzCut
    THEN [orientation |-> "horizontal",
          sub_type |-> IF c > 0 THEN "floor" ELSE "ceiling"]
    ELSE [orientation |-> "vertical", sub_type |-> "wall"]

\* round(count / total, 4), in ten-thousandths
RoundRatio(count, total) == (2 * 10000 * count + total) \div (2 * total)

Accepts_OffByOne(count, m) == ~(count < m - 1)

Accepts_Strict(count, m) == count > m

\* the test of `if len(inlier_indices) < min_inliers: break`, negated
Accepts(count, m) == ~(count < m)

PlaneRecord(index, plane_model, inlier_indices, total) ==
    [plane_index  |-> index,
     normal       |-> plane_model,
     orientation  |-> Classify(plane_model[3]).orientation,
     sub_type     |-> Classify(plane_model[3]).sub_type,
     inlier_count |-> NumPoints(inlier_indices),
     inlier_ratio |-> RoundRatio(NumPoints(inlier_indices), total)]

----------------------------------------------------------------------------
(* The geometry provider, seen from the caller *)

CloudSizes ==
    { 50 * k : k \in 0..MaxSmall } \cup { 10000 + 5050 * k : k \in 0..MaxLarge }

\* unit normals (a, b, c), in tenths; c = +-8 is the classification boundary
Normals ==
    << <<0, 0, 10>>, <<0, 0, -10>>, <<10, 0, 0>>, <<6, 0, 8>>,
       <<0, -6, -8>>, <<0, 4, 9>>, <<3, 3, -9>> >>

NormalAt(k) == Normals[(k % Len(Normals)) + 1]

\* What remaining.segment_plane(...) may hand back for a cloud of n >= m points:
\* an exception, or a plane model with a list of distinct valid indices.  The
\* lists cover: exactly m inliers (one range; two ranges), all points, all but
\* m-1 points, m-1 inliers, and no inlier at all (the zero plane).  The normal
\* paired with a list rotates with the round, so that every normal meets every
\* list.
SegmentPlaneOutcomes(cloud, m, round) ==
    LET n == NumPoints(cloud)
    IN  { [raised |-> TRUE, plane_model |-> <<0, 0, 0>>, inlier_indices |-> <<>>],
          [raised |-> FALSE, plane_model |-> <<0, 0, 0>>, inlier_indices |-> <<>>],
          [raised |-> FALSE, plane_model |-> NormalAt(round),
           inlier_indices |-> << <<0, m - 1>> >>],
          [raised |-> FALSE, plane_model |-> NormalAt(round + 1),
           inlier_indices |-> IF n > m + 1
                              THEN << <<0, 0>>, <<n - m + 1, n - 1>> >>
                              ELSE << <<0, m - 1>> >>],
          [raised |-> FALSE, plane_model |-> NormalAt(round + 2),
           inlier_indices |-> << <<0, n - 1>> >>],
          [raised |-> FALSE, plane_model |-> NormalAt(round + 3),
           inlier_indices |-> << <<0, Max(n - m, m - 1)>> >>],
          [raised |-> FALSE, plane_model |-> NormalAt(round + 4),
           inlier_indices |-> << <<1, m - 1>> >>] }

----------------------------------------------------------------------------
(* The scanned scene and the plane fit (random-sample consensus) *)

\* A scene is made of three groups of points, stored one after the other; a
\* plane of the scene has the points of some of the groups within
\* plane_threshold of it.  A group in no plane is clutter.
Atoms == 1..3
AtomSizes == {0, 60, 100, 150, 19000}

Shapes == << {1}, {2}, {3}, {1, 2}, {1, 3}, {2, 3}, {1, 2, 3} >>

AtomLo(k, sz) == 1 + (IF k > 1 THEN sz[1] ELSE 0) + (IF k > 2 THEN sz[2] ELSE 0)
AtomHi(k, sz) == AtomLo(k, sz) + sz[k] - 1

\* acc with one more range: joined to the last range when they touch
Join(acc, lo, hi) ==
    IF acc # <<>> /\ acc[Len(acc)][2] + 1 = lo
    THEN [acc EXCEPT ![Len(acc)] = <<acc[Len(acc)][1], hi>>]
    ELSE Append(acc, <<lo, hi>>)

RECURSIVE ShapeIds(_, _, _, _)
ShapeIds(k, shape, sz, acc) ==
    IF k > 3 THEN acc
    ELSE IF k \notin shape \/ sz[k] = 0 THEN ShapeIds(k + 1, shape, sz, acc)
    ELSE ShapeIds(k + 1, shape, sz, Join(acc, AtomLo(k, sz), AtomHi(k, sz)))

Scenes ==
    { [sizes  |-> sz,
       planes |-> [p \in F |-> [normal |-> NormalAt(p),
                                ids    |-> ShapeIds(1, Shapes[p], sz, <<>>)]]] :
        sz \in [Atoms -> AtomSizes],
        F \in { G \in SUBSET (1..Len(Shapes)) : Cardinality(G) <= MaxScenePlanes } }

NoScene == [sizes |-> <<>>, planes |-> <<>>]

SceneSize(sc) == sc.sizes[1] + sc.sizes[2] + sc.sizes[3]

\* the positions, counted from base, of the points of the range h that are in ids
RECURSIVE Hits(_, _, _, _)
Hits(h, base, ids, acc) ==
    IF ids = <<>> THEN acc
    ELSE LET lo == Max(h[1], Head(ids)[1])
             hi == Min(h[2], Head(ids)[2])
         IN Hits(h, base, Tail(ids),
                 IF lo <= hi THEN Join(acc, base + lo - h[1], base + hi - h[1])
                 ELSE acc)

\* the indices of the points of cloud that are within the threshold of a plane
RECURSIVE PositionsIn(_, _, _, _)
PositionsIn(cloud, base, ids, acc) ==
    IF cloud = <<>> THEN acc
    ELSE LET h == Head(cloud)
         IN PositionsIn(Tail(cloud), base + (h[2] - h[1] + 1), ids,
                        Hits(h, base, ids, acc))

InlierIndices(cloud, ids) == PositionsIn(cloud, 0, ids, <<>>)

\* the planes a sample of the cloud's points can propose
Candidates(sc, cloud) ==
    { p \in DOMAIN sc.planes : Overlap(sc.planes[p].ids, cloud) }

NoBest == [plane |-> 0, inlier_indices |-> <<>>]

Better_Always(count, best_count) == count > 0

\* "keep the plane with the most inliers": the first found wins a tie
Better(count, best_count) == count > best_count

\* one trial of the plane fit: candidate p against the best so far
Trial(p, cloud, sc, b) ==
    LET inl == InlierIndices(cloud, sc.planes[p].ids)
    IN IF Better(NumPoints(inl), NumPoints(b.inlier_indices))
       THEN [plane |-> p, inlier_indices |-> inl]
       ELSE b

\* the plane model the fit returns for its best candidate
ModelOf(sc, b) == IF b.plane = 0 THEN <<0, 0, 0>> ELSE sc.planes[b.plane].normal

----------------------------------------------------------------------------
(* The run *)

ErrorResponse(msg) == [kind |-> "error", error |-> msg]

Result ==
    [kind |-> "result",
     total_points |-> total_points,
     planes |-> planes,
     remaining_points |-> NumPoints(remaining)]

NoRun == [total_points |-> 0, min_inliers |-> 0, planes |-> <<>>,
          residual |-> <<>>, stop_reason |-> "none"]

\* the state of op_extract_floors while another operation runs
ClusteringIdle ==
    /\ points = <<>>
    /\ horizontal_z = <<>>
    /\ hist = <<>>
    /\ min_peak_count = 0
    /\ floors = <<>>

NoBox == [min_x |-> 0, min_y |-> 0, max_x |-> 0, max_y |-> 0]
NoCutPlane == [type |-> "none", height_m |-> 0, position_m |-> 0, direction_deg |-> 0]
NoDrawing == [w |-> 0, h |-> 0]

\* the state of model_section.py while point_cloud_process.py runs
CuttingIdle ==
    /\ mesh = <<>>
    /\ cut_plane = NoCutPlane
    /\ output_format = "svg"
    /\ cut_calls = 0
    /\ sections = <<>>
    /\ bbox = NoBox
    /\ out_dir = FALSE
    /\ written = "none"
    /\ drawing = NoDrawing
    /\ cut_failed = FALSE

Init ==
    /\ pc = "main"
    /\ file_exists \in BOOLEAN
    /\ operation \in {"segment_planes", "unknown"}
    /\ pcd = Unset
    /\ total_points = 0
    /\ remaining = <<>>
    /\ planes = <<>>
    /\ i = 0
    /\ min_inliers = 0
    /\ inlier_clouds = <<>>
    /\ fit_calls = <<>>
    /\ rejected = <<>>
    /\ stop_reason = "none"
    /\ stdout = <<>>
    /\ stderr = <<>>
    /\ saved = FALSE
    /\ scene = NoScene
    /\ trials_left = {}
    /\ best = NoBest
    /\ run = 1
    /\ first_run = NoRun
    /\ ClusteringIdle
    /\ CuttingIdle

\* main(), up to the call of the handler
Main ==
    /\ pc = "main"
    /\ IF ~file_exists
       THEN /\ stdout' = Append(stdout, ErrorResponse("File not found"))
            /\ pc' = "done"
       ELSE IF operation # "segment_planes"
       THEN /\ stdout' = Append(stdout, ErrorResponse("Unknown operation"))
            /\ pc' = "done"
       ELSE /\ stdout' = stdout
            /\ pc' = "load"
    /\ UNCHANGED <<request, clustering, cutting, pcd, total_points, remaining, planes, i, min_inliers,
                   inlier_clouds, fit_calls, rejected, stop_reason, stderr, saved,
                   fitting, rerun>>

\* an exception that nothing prints
Raise_Silent(msg) ==
    /\ stderr' = stderr
    /\ pc' = "done"

\* an exception leaves op_segment_planes and main(); the module's handler prints it
Raise(msg) ==
    /\ stderr' = Append(stderr, ErrorResponse(msg))
    /\ pc' = "done"

\* load_as_open3d returns None
LoadNone ==
    /\ pc = "load"
    /\ stdout' = Append(stdout, ErrorResponse("Could not load point cloud"))
    /\ pc' = "done"
    /\ UNCHANGED <<request, clustering, cutting, pcd, total_points, remaining, planes, i, min_inliers,
                   inlier_clouds, fit_calls, rejected, stop_reason, stderr, saved,
                   fitting, rerun>>

\* the codec raises while reading the file
LoadRaises ==
    /\ pc = "load"
    /\ Raise("load")
    /\ UNCHANGED <<request, clustering, cutting, pcd, total_points, remaining, planes, i, min_inliers,
                   inlier_clouds, fit_calls, rejected, stop_reason, stdout, saved,
                   fitting, rerun>>

\* the loop's variables are set up for the loaded cloud
Setup(cloud) ==
    /\ pcd' = cloud
    /\ total_points' = NumPoints(cloud)
    /\ remaining' = cloud
    /\ planes' = <<>>
    /\ min_inliers' = MinInliers(NumPoints(cloud))
    /\ i' = 0
    /\ pc' = "round"

\* a cloud of n points is loaded
LoadCloud(n) ==
    /\ pc = "load"
    /\ Setup(WholeCloud(n))
    /\ UNCHANGED <<request, clustering, cutting, inlier_clouds, fit_calls, rejected, stop_reason,
                   stdout, stderr, saved, fitting, rerun>>

\* the scan of a scene is loaded; the planes of a scene hold points, and no two
\* hold the same points
LoadScene(sc) ==
    /\ pc = "load"
    /\ \A p \in DOMAIN sc.planes :
          /\ sc.planes[p].ids # <<>>
          /\ \A q \in DOMAIN sc.planes : p # q => sc.planes[p].ids # sc.planes[q].ids
    /\ Setup(WholeCloud(SceneSize(sc)))
    /\ scene' = sc
    /\ UNCHANGED <<request, clustering, cutting, inlier_clouds, fit_calls, rejected, stop_reason,
                   stdout, stderr, saved, trials_left, best, rerun>>

LoopGuard_NoCap == ~(NumPoints(remaining) < min_inliers)

LoopGuard_NoSizeCheck == i < max_planes

\* the loop goes on: range(max_planes) is not exhausted and enough points are left
LoopGuard == i < max_planes /\ ~(NumPoints(remaining) < min_inliers)

LoopExit ==
    /\ pc = "round"
    /\ ~LoopGuard
    /\ stop_reason' = IF i >= max_planes THEN "max_planes" ELSE "few_points"
    /\ pc' = "finish"
    /\ UNCHANGED <<request, clustering, cutting, pcd, total_points, remaining, planes, i, min_inliers,
                   inlier_clouds, fit_calls, rejected, stdout, stderr, saved,
                   fitting, rerun>>

\* remaining.segment_plane(...) is called
SegmentPlaneCall ==
    /\ pc = "round"
    /\ LoopGuard
    /\ fit_calls' = Append(fit_calls, NumPoints(remaining))
    /\ trials_left' = Candidates(scene, remaining)
    /\ best' = NoBest
    /\ pc' = "fit"
    /\ UNCHANGED <<request, clustering, cutting, pcd, total_points, remaining, planes, i, min_inliers,
                   inlier_clouds, rejected, stop_reason, stdout, stderr, saved,
                   scene, rerun>>

\* the rest of the round, once segment_plane has returned; the division of
\* inlier_ratio raises when total_points is 0
RoundBody(plane_model, inlier_indices) ==
    IF ~Accepts(NumPoints(inlier_indices), min_inliers)
    THEN /\ rejected' = select_by_index(remaining, inlier_indices, FALSE)
         /\ stop_reason' = "few_inliers"
         /\ pc' = "finish"
         /\ UNCHANGED <<remaining, planes, i, inlier_clouds, stderr>>
    ELSE IF total_points = 0
    THEN /\ Raise("division by zero")
         /\ stop_reason' = "raised"
         /\ UNCHANGED <<remaining, planes, i, inlier_clouds, rejected>>
    ELSE /\ planes' = Append(planes,
                PlaneRecord(i, plane_model, inlier_indices, total_points))
         /\ inlier_clouds' = Append(inlier_clouds,
                select_by_index(remaining, inlier_indices, FALSE))
         /\ remaining' = select_by_index(remaining, inlier_indices, TRUE)
         /\ i' = i + 1
         /\ pc' = "round"
         /\ UNCHANGED <<rejected, stop_reason, stderr>>

\* segment_plane raises
SegmentPlaneRaises ==
    /\ pc = "fit"
    /\ \E o \in SegmentPlaneOutcomes(remaining, min_inliers, i) : o.raised
    /\ Raise("segment_plane")
    /\ stop_reason' = "raised"
    /\ UNCHANGED <<request, clustering, cutting, pcd, total_points, remaining, planes, i, min_inliers,
                   inlier_clouds, fit_calls, rejected, stdout, saved, fitting,
                   rerun>>

\* segment_plane returns some plane model and some inlier indices
SegmentPlaneReturns ==
    /\ pc = "fit"
    /\ \E o \in SegmentPlaneOutcomes(remaining, min_inliers, i) :
          /\ ~o.raised
          /\ RoundBody(o.plane_model, o.inlier_indices)
    /\ UNCHANGED <<request, clustering, cutting, pcd, total_points, min_inliers, fit_calls, stdout,
                   saved, fitting, rerun>>

\* inside segment_plane: one more candidate of the scene is evaluated
FitTrial(p) ==
    /\ pc = "fit"
    /\ p \in trials_left
    /\ best' = Trial(p, remaining, scene, best)
    /\ trials_left' = trials_left \ {p}
    /\ UNCHANGED <<pc, request, clustering, cutting, pcd, total_points, remaining, planes, i,
                   min_inliers, inlier_clouds, fit_calls, rejected, stop_reason,
                   stdout, stderr, saved, scene, rerun>>

\* segment_plane returns the best candidate of the scene
FitReturns ==
    /\ pc = "fit"
    /\ trials_left = {}
    /\ RoundBody(ModelOf(scene, best), best.inlier_indices)
    /\ UNCHANGED <<request, clustering, cutting, pcd, total_points, min_inliers, fit_calls, stdout,
                   saved, fitting, rerun>>

\* the result is built, optionally saved, returned and printed by main()
Finish ==
    /\ pc = "finish"
    /\ saved' \in BOOLEAN
    /\ stdout' = Append(stdout, Result)
    /\ pc' = "done"
    /\ UNCHANGED <<request, clustering, cutting, pcd, total_points, remaining, planes, i, min_inliers,
                   inlier_clouds, fit_calls, rejected, stop_reason, stderr,
                   fitting, rerun>>

\* a second run of the operation, on the residual points of the first
RunOnResidual ==
    /\ pc = "done"
    /\ run = 1
    /\ stdout # <<>>
    /\ stdout[1].kind = "result"
    /\ first_run' = [total_points |-> total_points, min_inliers |-> min_inliers,
                     planes |-> planes, residual |-> remaining,
                     stop_reason |-> stop_reason]
    /\ run' = 2
    /\ Setup(remaining)
    /\ inlier_clouds' = <<>>
    /\ fit_calls' = <<>>
    /\ rejected' = <<>>
    /\ stop_reason' = "none"
    /\ stdout' = <<>>
    /\ stderr' = <<>>
    /\ saved' = FALSE
    /\ UNCHANGED <<request, clustering, cutting, fitting>>

\* one run, with a plane-fitting provider that may return anything
Next ==
    \/ Main
    \/ LoadNone
    \/ LoadRaises
    \/ pc = "load" /\ \E n \in CloudSizes : LoadCloud(n)
    \/ LoopExit
    \/ SegmentPlaneCall
    \/ SegmentPlaneRaises
    \/ SegmentPlaneReturns
    \/ Finish

Spec == Init /\ [][Next]_vars

\* the scan of a scene, with a provider that evaluates the scene's planes in any
\* order and keeps the best; then the run on the residual
NextScene ==
    \/ Main
    \/ pc = "load" /\ \E sc \in Scenes : LoadScene(sc)
    \/ LoopExit
    \/ SegmentPlaneCall
    \/ \E p \in trials_left : FitTrial(p)
    \/ FitReturns
    \/ Finish
    \/ RunOnResidual

SpecScene == Init /\ [][NextScene]_vars

----------------------------------------------------------------------------
(* Properties of op_segment_planes *)

\* m as the specification states it: max(100, floor(1% of the point count))
ClaimedThreshold(n) == IF n \div 100 > 100 THEN n \div 100 ELSE 100

\* the results printed on stdout
Results == { stdout[r] : r \in { q \in 1..Len(stdout) : stdout[q].kind = "result" } }

RECURSIVE SumCounts(_)
SumCounts(records) ==
    IF records = <<>> THEN 0
    ELSE Head(records).inlier_count + SumCounts(Tail(records))

\* arr lists non-empty ranges of ids of 1..n, ascending and apart
WellFormed(arr, n) ==
    /\ \A k \in 1..Len(arr) : 1 <= arr[k][1] /\ arr[k][1] <= arr[k][2] /\ arr[k][2] <= n
    /\ \A k \in 1..(Len(arr) - 1) : arr[k][2] + 1 < arr[k + 1][1]

\* every point of arr1 is a point of arr2
Covered(arr1, arr2) ==
    \A j \in 1..Len(arr1) :
        \E k \in 1..Len(arr2) : arr2[k][1] <= arr1[j][1] /\ arr1[j][2] <= arr2[k][2]

\* C1: every PlaneRecord appended to the plane list has inlier_count >= m, with
\* m = max(100, floor(1% of the original point count)); after every round and
\* in the returned result.
C1_InliersMeetThreshold ==
    /\ \A k \in 1..Len(planes) :
          planes[k].inlier_count >= ClaimedThreshold(total_points)
    /\ \A r \in Results :
          \A k \in 1..Len(r.planes) :
              r.planes[k].inlier_count >= ClaimedThreshold(r.total_points)

C1_Witness ==
    /\ pc = "done"
    /\ Results # {}
    /\ total_points > 10100
    /\ Len(planes) >= 2
    /\ \E k \in 1..Len(planes) :
          planes[k].inlier_count = ClaimedThreshold(total_points)

\* C2: after every round the inlier sets of the accepted planes are pairwise
\* disjoint and disjoint from remaining, and with remaining they partition the
\* input points: the recorded inlier counts and |remaining| add up to
\* total_points, and the returned remaining_points is the number of points no
\* accepted plane claimed.
C2_InliersPartitionCloud ==
    pcd # Unset =>
        /\ Len(inlier_clouds) = Len(planes)
        /\ WellFormed(remaining, total_points)
        /\ \A k \in 1..Len(planes) :
              /\ WellFormed(inlier_clouds[k], total_points)
              /\ NumPoints(inlier_clouds[k]) = planes[k].inlier_count
              /\ ~Overlap(inlier_clouds[k], remaining)
              /\ \A j \in 1..(k - 1) : ~Overlap(inlier_clouds[j], inlier_clouds[k])
        /\ SumCounts(planes) + NumPoints(remaining) = total_points
        /\ \A r \in Results :
              r.remaining_points = r.total_points - SumCounts(r.planes)

C2_Witness ==
    /\ pc = "done"
    /\ Results # {}
    /\ Len(planes) >= 3
    /\ remaining # <<>>
    /\ \E k \in 1..Len(planes) : Len(inlier_clouds[k]) >= 2

\* C3: the segmentation loop runs at most K = 10 fit rounds, never gets stuck
\* before the run ends, and returns at most 10 PlaneRecords, whose plane_index
\* values are 0, 1, ..., n-1 in order of acceptance.
C3_AtMostTenRounds ==
    /\ Len(fit_calls) <= 10
    /\ i <= 10
    /\ pc # "done" => ENABLED Next
    /\ Len(planes) <= 10
    /\ \A k \in 1..Len(planes) : planes[k].plane_index = k - 1
    /\ \A r \in Results :
          /\ Len(r.planes) <= 10
          /\ \A k \in 1..Len(r.planes) : r.planes[k].plane_index = k - 1

C3_Witness ==
    /\ pc = "done"
    /\ Results # {}
    /\ Len(planes) = 10
    /\ stop_reason = "max_planes"
    /\ NumPoints(remaining) >= min_inliers

\* C5: for a loaded cloud with zero points the operation returns an empty plane
\* list and remaining_points = 0 as a normal result, without calling the
\* plane-fitting primitive.
C5_EmptyCloud ==
    pcd = <<>> =>
        /\ fit_calls = <<>>
        /\ pc # "fit"
        /\ stderr = <<>>
        /\ pc = "done" =>
              stdout = << [kind |-> "result", total_points |-> 0,
                           planes |-> <<>>, remaining_points |-> 0] >>

C5_Witness ==
    /\ pcd = <<>>
    /\ pc = "done"
    /\ stdout # <<>>

\* the classification the specification states, for a vertical component c (tenths)
ClaimedClass(c) ==
    IF c > 8 THEN <<"horizontal", "floor">>
    ELSE IF c < -8 THEN <<"horizontal", "ceiling">>
    ELSE <<"vertical", "wall">>

\* C6: orientation is a total function of the fitted normal: |c| > 0.8 gives
\* horizontal, floor when c > 0 and ceiling otherwise; |c| <= 0.8, 0.8 included,
\* gives vertical/wall; every emitted record carries one of these three pairs.
C6_Classification ==
    /\ \A c \in -10..10 :
          <<Classify(c).orientation, Classify(c).sub_type>> = ClaimedClass(c)
    /\ \A k \in 1..Len(planes) :
          <<planes[k].orientation, planes[k].sub_type>>
              = ClaimedClass(planes[k].normal[3])
    /\ \A r \in Results :
          \A k \in 1..Len(r.planes) :
              <<r.planes[k].orientation, r.planes[k].sub_type>>
                  \in { <<"horizontal", "floor">>, <<"horizontal", "ceiling">>,
                        <<"vertical", "wall">> }

C6_Witness ==
    /\ pc = "done"
    /\ Results # {}
    /\ \E k \in 1..Len(planes) :
          planes[k].normal = <<6, 0, 8>> /\ planes[k].sub_type = "wall"
    /\ \E k \in 1..Len(planes) :
          planes[k].normal = <<0, 0, -10>> /\ planes[k].sub_type = "ceiling"
    /\ \E k \in 1..Len(planes) :
          planes[k].normal = <<0, 0, 10>> /\ planes[k].sub_type = "floor"
    /\ \E k \in 1..Len(planes) :
          planes[k].normal = <<10, 0, 0>> /\ planes[k].sub_type = "wall"

\* C8: when the plane-fitting primitive fails in some round, segmentation stops
\* early and the operation still returns a normal result with the records
\* accepted before and the current residual count.
C8_FitFailureStopsEarly ==
    (pc = "done" /\ stop_reason = "raised") =>
        /\ stdout = << Result >>
        /\ stderr = <<>>

StoppedLoopStaysStopped ==
    stop_reason \in {"few_points", "few_inliers"} =>
        /\ planes' = planes
        /\ remaining' = remaining
        /\ fit_calls' = fit_calls
        /\ pc' \in {"finish", "done"}

\* C9: the primitive is never called in a round with |remaining| < m; once a
\* round stops the loop, no later round runs and no record is appended; the
\* inliers of the rejected plane stay in the residual.
C9_StopOrdering ==
    /\ [](/\ \A k \in 1..Len(fit_calls) :
                fit_calls[k] >= ClaimedThreshold(total_points)
          /\ stop_reason = "few_inliers" => Covered(rejected, remaining)
          /\ \A r \in Results :
                r.planes = planes /\ r.remaining_points = NumPoints(remaining))
    /\ [][StoppedLoopStaysStopped]_vars

C9_Witness ==
    /\ pc = "done"
    /\ Results # {}
    /\ stop_reason = "few_inliers"
    /\ rejected # <<>>
    /\ Len(planes) >= 1

----------------------------------------------------------------------------
(* Properties that depend on the scanned scene *)

\* every point of the scan is within plane_threshold of one plane of the scene
OnePlaneScene ==
    /\ run = 1
    /\ pcd # Unset
    /\ pcd # <<>>
    /\ \E p \in DOMAIN scene.planes : scene.planes[p].ids = pcd

OnePlaneResult ==
    /\ stderr = <<>>
    /\ Len(stdout) = 1
    /\ stdout[1].kind = "result"
    /\ Len(stdout[1].planes) = 1
    /\ stdout[1].planes[1].inlier_count = total_points
    /\ stdout[1].planes[1].inlier_ratio = 10000
    /\ stdout[1].remaining_points = 0

\* C4 as stated: for every non-empty point set within the threshold of a single
\* plane, of any size, the result is exactly one PlaneRecord with all points as
\* inliers, inlier_ratio 1.0 and remaining_points = 0.
C4_AnySizeOnePlane ==
    (pc = "done" /\ OnePlaneScene) => OnePlaneResult

\* C4, amended: the same for point sets of at least 100 points, the plane fit
\* returning the best-supported plane; with fewer points no plane is returned.
C4_OnePlaneFromHundredPoints ==
    (pc = "done" /\ OnePlaneScene) =>
        IF total_points >= 100 THEN OnePlaneResult
        ELSE stdout = << [kind |-> "result", total_points |-> total_points,
                          planes |-> <<>>, remaining_points |-> total_points] >>

C4_Witness ==
    /\ pc = "done"
    /\ OnePlaneScene
    /\ total_points = 100
    /\ OnePlaneResult

\* the first run ended because the best plane of the residual did not meet its
\* threshold
FirstRunExhausted ==
    /\ run = 2
    /\ first_run.stop_reason = "few_inliers"

ResidualUntouched ==
    /\ planes = <<>>
    /\ remaining = first_run.residual
    /\ stdout = << [kind |-> "result", total_points |-> total_points,
                    planes |-> <<>>, remaining_points |-> total_points] >>

\* C7 as stated: a second run on the residual R of a first run, its threshold
\* derived by the same rule, returns zero planes and leaves R, whenever the
\* first run ended because no remaining plane met its threshold.
C7_SecondRunFindsNothing ==
    (pc = "done" /\ FirstRunExhausted) => ResidualUntouched

\* C7, amended: the same, provided the rule gives the second run the threshold
\* of the first.
C7_SecondRunSameThreshold ==
    (/\ pc = "done"
     /\ FirstRunExhausted
     /\ ClaimedThreshold(total_points) = ClaimedThreshold(first_run.total_points))
        => ResidualUntouched

C7_Witness ==
    /\ pc = "done"
    /\ FirstRunExhausted
    /\ Len(first_run.planes) >= 1
    /\ fit_calls # <<>>
    /\ rejected # <<>>
    /\ ResidualUntouched

\* the plane fit has evaluated all its candidates
FitDone == pc = "fit" /\ trials_left = {}

RECURSIVE Ascending(_)
Ascending(S) ==
    IF S = {} THEN <<>>
    ELSE LET lo == CHOOSE x \in S : \A y \in S : x <= y
         IN <<lo>> \o Ascending(S \ {lo})

RECURSIVE TrialsInOrder(_, _)
TrialsInOrder(order, b) ==
    IF order = <<>> THEN b
    ELSE TrialsInOrder(Tail(order), Trial(Head(order), remaining, scene, b))

InlierCount(p) == NumPoints(InlierIndices(remaining, scene.planes[p].ids))

Winners ==
    { p \in Candidates(scene, remaining) :
        \A q \in Candidates(scene, remaining) : InlierCount(p) >= InlierCount(q) }

\* C10 as stated: every evaluation order of the candidates of one plane fit
\* yields the same winning plane and inlier set, ties included.
C10_SameWinnerInAnyOrder ==
    FitDone => best = TrialsInOrder(Ascending(Candidates(scene, remaining)), NoBest)

\* C10, amended: every evaluation order yields a winner with the maximal inlier
\* count, and the same winning plane and inlier set when one candidate alone
\* has that count.
C10_SameCountInAnyOrder ==
    FitDone =>
        /\ Candidates(scene, remaining) = {} => best = NoBest
        /\ Candidates(scene, remaining) # {} =>
              /\ best.plane \in Winners
              /\ best.inlier_indices
                    = InlierIndices(remaining, scene.planes[best.plane].ids)
        /\ Cardinality(Winners) = 1 =>
              best = TrialsInOrder(Ascending(Candidates(scene, remaining)), NoBest)

C10_Witness ==
    /\ FitDone
    /\ Cardinality(Winners) >= 2
    /\ best.plane \in Winners
    /\ best # TrialsInOrder(Ascending(Candidates(scene, remaining)), NoBest)

----------------------------------------------------------------------------
(* op_extract_floors: the input                                            *)
(*                                                                         *)
(* Elevations are integers in units of 0.0001 (the precision of            *)
(* round(x, 4)), and arithmetic on them is exact.  The points of a cloud   *)
(* are given as levels: count points at elevation z whose normal has       *)
(* vertical component nz (in tenths).  The elevations are drawn from       *)
(* ZGrid, on which double arithmetic and exact arithmetic take the same    *)
(* decisions (bin count, bin membership, merge test).                      *)

\* a cloud has at most MaxLevels distinct elevations
MaxLevels == 4

Metre == 10000              \* round(x, 4)
FloorNzCut == 8             \* nz_abs > 0.8
SameHeight == 1000          \* z_range < 0.1
BinWidth == 1000            \* int(z_range / 0.1)
MinBins == 10
MinPeakFloor == 50
PeakDivisor == 50           \* len(horizontal_indices) * 0.02
MergeDistance == 3000       \* abs(...) < 0.3

ZGrid == {29000, 30000, 31500, 33500, 34000, 60000}
\* <<count, nz>> of a level
LevelKinds == { <<40, 10>>, <<50, -9>>, <<120, 10>>, <<3000, 10>>, <<120, 8>> }

RECURSIVE LevelsOf(_, _)
LevelsOf(S, kind) ==
    IF S = {} THEN <<>>
    ELSE LET z == CHOOSE x \in S : \A y \in S : x <= y
         IN  << [z |-> z, count |-> kind[z][1], nz |-> kind[z][2]] >>
             \o LevelsOf(S \ {z}, kind)

PointSets ==
    UNION { { LevelsOf(S, kind) : kind \in [S -> LevelKinds] } :
            S \in { T \in SUBSET ZGrid : Cardinality(T) <= MaxLevels } }

----------------------------------------------------------------------------
(* op_extract_floors: the pure parts *)

RECURSIVE CountOf(_)
\* number of points of a sequence of levels
CountOf(lv) == IF lv = <<>> THEN 0 ELSE Head(lv).count + CountOf(Tail(lv))

RECURSIVE SumOf(_)
\* sum of the elevations of the points
SumOf(lv) == IF lv = <<>> THEN 0 ELSE Head(lv).z * Head(lv).count + SumOf(Tail(lv))

IsHorizontal_Inclusive(lev) == ~(Abs(lev.nz) < FloorNzCut)

\* horizontal_mask = nz_abs > 0.8
IsHorizontal(lev) == Abs(lev.nz) > FloorNzCut

\* points[horizontal_indices, 2]
HorizontalZ(pts) == SelectSeq(pts, IsHorizontal)

ZMin(hz) == CHOOSE z \in { hz[k].z : k \in 1..Len(hz) } : \A k \in 1..Len(hz) : z <= hz[k].z
ZMax(hz) == CHOOSE z \in { hz[k].z : k \in 1..Len(hz) } : \A k \in 1..Len(hz) : z >= hz[k].z
ZRange(hz) == ZMax(hz) - ZMin(hz)

\* round(num / den, 4) of a non-negative quotient of elevations
Round4(num, den) == (2 * num + den) \div (2 * den)

RECURSIVE ElementAt(_, _)
\* the k-th smallest elevation (0-based) of levels given in ascending order
ElementAt(lv, k) ==
    IF k < Head(lv).count THEN Head(lv).z ELSE ElementAt(Tail(lv), k - Head(lv).count)

\* round(np.median(horizontal_z), 4)
Median(hz) ==
    LET n == CountOf(hz)
    IN  IF n % 2 = 1 THEN ElementAt(hz, n \div 2)
        ELSE Round4(ElementAt(hz, n \div 2 - 1) + ElementAt(hz, n \div 2), 2)

\* the bin count rounded up
NBins_Ceil(z_range) == Max(MinBins, (z_range + BinWidth - 1) \div BinWidth)

\* n_bins = max(10, int(z_range / 0.1))
NBins(z_range) == Max(MinBins, z_range \div BinWidth)

\* np.histogram: the bin of elevation z among n equal bins over [z_min, z_max];
\* the last bin is closed on the right
BinOf(z, hz, n) == Min(((z - ZMin(hz)) * n) \div ZRange(hz), n - 1)

\* hist of np.histogram(horizontal_z, bins=n)
Histogram(hz, n) ==
    [k \in 1..n |-> CountOf(SelectSeq(hz, LAMBDA lev : BinOf(lev.z, hz, n) = k - 1))]

InBin_Closed(z, b, hz, n) == BinOf(z, hz, n) = b

\* (horizontal_z >= bin_edges[b]) & (horizontal_z < bin_edges[b + 1]), where
\* bin_edges[k] = z_min + k * z_range / n
InBin(z, b, hz, n) ==
    /\ (z - ZMin(hz)) * n >= b * ZRange(hz)
    /\ (z - ZMin(hz)) * n < (b + 1) * ZRange(hz)

\* horizontal_z[mask]
Masked(hz, b, n) == SelectSeq(hz, LAMBDA lev : InBin(lev.z, b, hz, n))

\* min_peak_count = max(50, int(len(horizontal_indices) * 0.02))
MinPeakCount(n_horizontal) == Max(MinPeakFloor, n_horizontal \div PeakDivisor)

\* is_peak of bin b (0-based) of histogram h
IsPeak(h, b) ==
    /\ ~(b > 0 /\ h[b] > h[b + 1])
    /\ ~(b < Len(h) - 1 /\ h[b + 2] > h[b + 1])

\* the test of line 499 alone
IsCandidate_NoPeakTest(h, b, m) == ~(h[b + 1] < m)

\* bin b passes the tests of lines 499 and 509-510
IsCandidate(h, b, m) ==
    /\ ~(h[b + 1] < m)
    /\ \/ IsPeak(h, b)
       \/ b = 0 /\ h[b + 1] >= m
       \/ b = Len(h) - 1 /\ h[b + 1] >= m

TooClose_Never(sum, cnt, prev) == FALSE

\* abs(refined_height - floors[-1]["height_m"]) < 0.3, refined_height = sum / cnt
TooClose(sum, cnt, prev) == Abs(sum - prev * cnt) < MergeDistance * cnt

\* the merge that lets the later candidate win a tie
AddFloor_LastWins(fs, sum, cnt) ==
    IF fs # <<>> /\ TooClose(sum, cnt, fs[Len(fs)].height_m)
    THEN IF cnt >= fs[Len(fs)].point_count
         THEN [fs EXCEPT ![Len(fs)].height_m = Round4(sum, cnt),
                         ![Len(fs)].point_count = cnt]
         ELSE fs
    ELSE Append(fs, [floor_index |-> Len(fs),
                     height_m |-> Round4(sum, cnt),
                     point_count |-> cnt])

\* lines 519-532: the floor list after a candidate with cnt points of total
\* elevation sum
AddFloor(fs, sum, cnt) ==
    IF fs # <<>> /\ TooClose(sum, cnt, fs[Len(fs)].height_m)
    THEN IF cnt > fs[Len(fs)].point_count
         THEN [fs EXCEPT ![Len(fs)].height_m = Round4(sum, cnt),
                         ![Len(fs)].point_count = cnt]
         ELSE fs
    ELSE Append(fs, [floor_index |-> Len(fs),
                     height_m |-> Round4(sum, cnt),
                     point_count |-> cnt])

RECURSIVE Insert(_, _)
\* f put after the records of fs (ascending) that are not higher than f
Insert(fs, f) ==
    IF fs = <<>> THEN <<f>>
    ELSE IF Head(fs).height_m <= f.height_m
         THEN <<Head(fs)>> \o Insert(Tail(fs), f)
         ELSE <<f>> \o fs

RECURSIVE SortByHeight(_)
\* floors.sort(key=lambda f: f["height_m"]), a stable sort
SortByHeight(fs) ==
    IF fs = <<>> THEN <<>>
    ELSE Insert(SortByHeight(SubSeq(fs, 1, Len(fs) - 1)), fs[Len(fs)])

\* f["floor_index"] = i
Reindex(fs) == [k \in 1..Len(fs) |-> [fs[k] EXCEPT !.floor_index = k - 1]]

FloorToFloor_All(fs) ==
    [k \in 1..Len(fs) |->
        [floor_index |-> fs[k].floor_index,
         height_m |-> fs[k].height_m,
         point_count |-> fs[k].point_count,
         floor_to_floor_m |-> IF k = 1 THEN 0 ELSE fs[k].height_m - fs[k - 1].height_m]]

\* lines 540-543: floor_to_floor_m of every floor but the first
FloorToFloor(fs) ==
    [k \in 1..Len(fs) |->
        IF k = 1 THEN fs[k]
        ELSE [floor_index |-> fs[k].floor_index,
              height_m |-> fs[k].height_m,
              point_count |-> fs[k].point_count,
              floor_to_floor_m |-> fs[k].height_m - fs[k - 1].height_m]]

----------------------------------------------------------------------------
(* op_extract_floors: the run *)

\* the variables of op_segment_planes that op_extract_floors does not have
segmenting == <<pcd, remaining, planes, min_inliers, inlier_clouds, fit_calls,
                rejected, stop_reason, fitting, rerun>>

SegmentingIdle ==
    /\ pcd = Unset
    /\ remaining = <<>>
    /\ planes = <<>>
    /\ min_inliers = 0
    /\ inlier_clouds = <<>>
    /\ fit_calls = <<>>
    /\ rejected = <<>>
    /\ stop_reason = "none"
    /\ scene = NoScene
    /\ trials_left = {}
    /\ best = NoBest
    /\ run = 1
    /\ first_run = NoRun

InitFloors ==
    /\ pc = "main"
    /\ file_exists \in BOOLEAN
    /\ operation = "extract_floors"
    /\ total_points = 0
    /\ i = 0
    /\ stdout = <<>>
    /\ stderr = <<>>
    /\ saved = FALSE
    /\ SegmentingIdle
    /\ ClusteringIdle
    /\ CuttingIdle

\* main(), up to the call of the handler
MainFloors ==
    /\ pc = "main"
    /\ operation = "extract_floors"
    /\ IF ~file_exists
       THEN /\ stdout' = Append(stdout, ErrorResponse("File not found"))
            /\ pc' = "done"
       ELSE /\ stdout' = stdout
            /\ pc' = "floors_load"
    /\ UNCHANGED <<request, segmenting, clustering, cutting, total_points, i,
                   stderr, saved>>

\* load_as_open3d returns None
FloorsLoadNone ==
    /\ pc = "floors_load"
    /\ stdout' = Append(stdout, ErrorResponse("Could not load point cloud"))
    /\ pc' = "done"
    /\ UNCHANGED <<request, segmenting, clustering, cutting, total_points, i,
                   stderr, saved>>

\* load_as_open3d raises
FloorsLoadRaises ==
    /\ pc = "floors_load"
    /\ Raise("load failed")
    /\ pc' = "done"
    /\ UNCHANGED <<request, segmenting, clustering, cutting, total_points, i,
                   stdout, saved>>

\* lines 440-458: the cloud is loaded, with its normals
FloorsLoad(pts) ==
    /\ pc = "floors_load"
    /\ pcd' = WholeCloud(CountOf(pts))
    /\ points' = pts
    /\ total_points' = CountOf(pts)
    /\ IF CountOf(pts) = 0
       THEN /\ stdout' = Append(stdout, [kind |-> "error",
                                         error |-> "Point cloud is empty",
                                         floors |-> <<>>])
            /\ pc' = "done"
       ELSE /\ stdout' = stdout
            /\ pc' = "filter"
    /\ UNCHANGED <<request, remaining, planes, min_inliers, inlier_clouds,
                   fit_calls, rejected, stop_reason, fitting, rerun, cutting,
                   horizontal_z, hist, min_peak_count, floors, i, stderr,
                   saved>>

\* lines 460-473: the points of horizontal surfaces are kept
FilterHorizontal ==
    /\ pc = "filter"
    /\ horizontal_z' = HorizontalZ(points)
    /\ IF HorizontalZ(points) = <<>>
       THEN /\ stdout' = Append(stdout, [kind |-> "result",
                                         total_points |-> total_points,
                                         floors |-> <<>>,
                                         message |-> "No horizontal surfaces detected."])
            /\ pc' = "done"
       ELSE /\ stdout' = stdout
            /\ pc' = "histogram"
    /\ UNCHANGED <<request, segmenting, cutting, points, hist, min_peak_count,
                   floors, total_points, i, stderr, saved>>

\* lines 475-496: one floor at the median, or the histogram of the elevations
Cluster ==
    /\ pc = "histogram"
    /\ IF ZRange(horizontal_z) < SameHeight
       THEN /\ floors' = << [floor_index |-> 0,
                             height_m |-> Median(horizontal_z),
                             point_count |-> CountOf(horizontal_z)] >>
            /\ pc' = "sort"
            /\ UNCHANGED <<hist, min_peak_count, i>>
       ELSE /\ hist' = Histogram(horizontal_z, NBins(ZRange(horizontal_z)))
            /\ min_peak_count' = MinPeakCount(CountOf(horizontal_z))
            /\ floors' = <<>>
            /\ i' = 0
            /\ pc' = "bins"
    /\ UNCHANGED <<request, segmenting, cutting, points, horizontal_z,
                   total_points, stdout, stderr, saved>>

\* lines 498-532: one iteration of the loop over the bins
BinStep ==
    /\ pc = "bins"
    /\ LET m == Masked(horizontal_z, i, Len(hist))
       IN  floors' = IF IsCandidate(hist, i, min_peak_count) /\ CountOf(m) > 0
                     THEN AddFloor(floors, SumOf(m), CountOf(m))
                     ELSE floors
    /\ IF i + 1 < Len(hist)
       THEN i' = i + 1 /\ pc' = "bins"
       ELSE i' = i /\ pc' = "sort"
    /\ UNCHANGED <<request, segmenting, cutting, points, horizontal_z, hist,
                   min_peak_count, total_points, stdout, stderr, saved>>

FloorsResult(fs) ==
    [kind |-> "result",
     total_points |-> total_points,
     horizontal_points |-> CountOf(horizontal_z),
     floors |-> fs,
     z_range_m |-> ZRange(horizontal_z)]

\* lines 534-562 and main(): the floors are sorted, indexed and spaced; the
\* result is optionally saved, returned and printed
FloorsFinish ==
    /\ pc = "sort"
    /\ floors' = FloorToFloor(Reindex(SortByHeight(floors)))
    /\ stdout' = Append(stdout, FloorsResult(floors'))
    /\ saved' \in BOOLEAN
    /\ pc' = "done"
    /\ UNCHANGED <<request, segmenting, cutting, points, horizontal_z, hist,
                   min_peak_count, total_points, i, stderr>>

NextFloors ==
    \/ MainFloors
    \/ FloorsLoadNone
    \/ FloorsLoadRaises
    \/ pc = "floors_load" /\ \E pts \in PointSets : FloorsLoad(pts)
    \/ FilterHorizontal
    \/ Cluster
    \/ BinStep
    \/ FloorsFinish

SpecFloors == InitFloors /\ [][NextFloors]_vars

----------------------------------------------------------------------------
(* Properties of op_extract_floors *)

\* the responses printed that carry a floor list
FloorLists == { stdout[r].floors : r \in { q \in 1..Len(stdout) : "floors" \in DOMAIN stdout[q] } }

\* the bins of the histogram that yield a floor candidate
AcceptedBins ==
    { b \in 0..(Len(hist) - 1) :
        /\ IsCandidate(hist, b, min_peak_count)
        /\ CountOf(Masked(horizontal_z, b, Len(hist))) > 0 }

StrictlyIncreasing(fs) ==
    \A k \in 1..(Len(fs) - 1) : fs[k].height_m < fs[k + 1].height_m

Separated(fs) ==
    \A a, b \in 1..Len(fs) : a # b => Abs(fs[a].height_m - fs[b].height_m) >= 3000

\* C11: the floor list, while it is built and in every result, is strictly
\* increasing in height_m, and any two of its floors are at least 0.3 apart
C11_FloorsSeparated ==
    /\ StrictlyIncreasing(floors) /\ Separated(floors)
    /\ \A fs \in FloorLists : StrictlyIncreasing(fs) /\ Separated(fs)

\* a result of two floors made from three accepted bins, one of them merged
C11_Witness ==
    /\ pc = "done"
    /\ Cardinality(AcceptedBins) >= 3
    /\ \E fs \in FloorLists : Len(fs) = 2

\* the printed response is one result whose floor list has n floors
OneResultWith(n) ==
    /\ Len(stdout) = 1
    /\ "floors" \in DOMAIN stdout[1]
    /\ "error" \notin DOMAIN stdout[1]
    /\ Len(stdout[1].floors) = n

\* points at exactly the elevations 3.0 and 6.0, more than 100 at each, all
\* normals (0, 0, 1)
TwoStoreys ==
    /\ Len(points) = 2
    /\ points[1].z = 30000 /\ points[2].z = 60000
    /\ \A k \in 1..2 : points[k].count > 100 /\ points[k].nz = 10

\* C12: for points at the two elevations 3.0 and 6.0 (more than 100 each,
\* normals (0,0,1)) the result has exactly two floors, at 3.0 and at 6.0, and
\* the second one's floor_to_floor_m is 3.0
C12_TwoStoreysTwoFloors ==
    (pc = "done" /\ TwoStoreys) =>
        /\ OneResultWith(2)
        /\ stdout[1].floors[1].height_m = 30000
        /\ stdout[1].floors[2].height_m = 60000
        /\ "floor_to_floor_m" \in DOMAIN stdout[1].floors[2]
        /\ stdout[1].floors[2].floor_to_floor_m = 30000

\* support a bin needs by the stated rule: more than max(50, 2% of the points)
ClaimedPeakThreshold(n) == IF n \div 50 > 50 THEN n \div 50 ELSE 50

\* two clusters of horizontal points 0.1 apart, each with enough support
TwoClusters ==
    /\ Len(points) = 2
    /\ points[2].z - points[1].z = 1000
    /\ \A k \in 1..2 :
          /\ Abs(points[k].nz) > 8
          /\ points[k].count > ClaimedPeakThreshold(points[1].count + points[2].count)

\* C13: two accepted clusters 0.1 apart give exactly one floor, which has the
\* elevation and the point count of the cluster with more points
C13_LargerClusterKept ==
    (pc = "done" /\ TwoClusters) =>
        /\ OneResultWith(1)
        /\ \E k \in 1..2 :
              /\ \A j \in 1..2 : points[k].count >= points[j].count
              /\ stdout[1].floors[1].height_m = points[k].z
              /\ stdout[1].floors[1].point_count = points[k].count

\* C14: in every result the floors are in ascending elevation with
\* floor_index 0, 1, ..., n-1; the floor of index 0 has no floor_to_floor_m;
\* every later floor has floor_to_floor_m = its height_m minus the height_m of
\* the floor before it, and that is strictly positive
C14_IndexedAndSpaced ==
    \A fs \in FloorLists : \A k \in 1..Len(fs) :
        /\ fs[k].floor_index = k - 1
        /\ k = 1 => "floor_to_floor_m" \notin DOMAIN fs[k]
        /\ k > 1 =>
              /\ fs[k - 1].height_m <= fs[k].height_m
              /\ "floor_to_floor_m" \in DOMAIN fs[k]
              /\ fs[k].floor_to_floor_m = fs[k].height_m - fs[k - 1].height_m
              /\ fs[k].floor_to_floor_m > 0

\* a result of two floors, the second with its spacing
C14_Witness ==
    /\ pc = "done"
    /\ \E fs \in FloorLists : Len(fs) = 2 /\ "floor_to_floor_m" \in DOMAIN fs[2]

\* points were loaded and none has a normal with |nz| > 0.8
NoHorizontalPoints ==
    /\ CountOf(points) > 0
    /\ \A k \in 1..Len(points) : ~(Abs(points[k].nz) > 8)

\* C15: a non-empty cloud without any point of |nz| > 0.8 gets one response,
\* an empty floor list with a message and no error field, and no histogram is
\* ever made for it
C15_NoHorizontalSurfaces ==
    NoHorizontalPoints =>
        /\ pc \in {"filter", "done"}
        /\ hist = <<>> /\ min_peak_count = 0 /\ floors = <<>>
        /\ stderr = <<>>
        /\ pc = "filter" => stdout = <<>>
        /\ pc = "done" =>
              /\ OneResultWith(0)
              /\ "message" \in DOMAIN stdout[1]
              /\ stdout[1].message = "No horizontal surfaces detected."

\* such a cloud, with points at two elevations, has been answered
C15_Witness ==
    /\ pc = "done"
    /\ NoHorizontalPoints
    /\ Len(points) >= 2
    /\ Len(stdout) = 1

----------------------------------------------------------------------------
(* model_section.py: the input                                             *)
(*                                                                         *)
(* Coordinates, heights and positions are integers in units of 0.5, and    *)
(* arithmetic on them is exact.  The vertices of the meshes are corners of *)
(* the unit cube, <<0|2, 0|2, 0|2>>.  A triangle is the sequence of its    *)
(* three vertices, a mesh the sequence of its triangles (mesh.faces over   *)
(* mesh.vertices).  The cut direction is 0 or 90 degrees, for which        *)
(* cos and sin are taken as exactly 0 and 1.                               *)

\* height_m and position_m range over -1 .. MaxOffset (-0.5 .. 2.0)
MaxOffset == 4

Corner(n) == << 2 * (n \div 4), 2 * ((n \div 2) % 2), 2 * (n % 2) >>

\* the vertex of the face `axis = c` with in-face coordinates p, q
FaceVertex(axis, c, p, q) ==
    IF axis = 1 THEN <<c, p, q>>
    ELSE IF axis = 2 THEN <<p, c, q>>
    ELSE <<p, q, c>>

\* the two triangles of a square face, split along one of its diagonals
Face(axis, c, diagonal) ==
    IF diagonal = 0
    THEN << << FaceVertex(axis, c, 0, 0), FaceVertex(axis, c, 2, 0), FaceVertex(axis, c, 2, 2) >>,
            << FaceVertex(axis, c, 0, 0), FaceVertex(axis, c, 2, 2), FaceVertex(axis, c, 0, 2) >> >>
    ELSE << << FaceVertex(axis, c, 0, 0), FaceVertex(axis, c, 2, 0), FaceVertex(axis, c, 0, 2) >>,
            << FaceVertex(axis, c, 2, 0), FaceVertex(axis, c, 2, 2), FaceVertex(axis, c, 0, 2) >> >>

\* the unit cube, the two faces across axis k split along diagonal d[k]
Cube(d) ==
    Face(1, 0, d[1]) \o Face(1, 2, d[1]) \o Face(2, 0, d[2]) \o Face(2, 2, d[2])
    \o Face(3, 0, d[3]) \o Face(3, 2, d[3])

Cubes == { Cube(d) : d \in [1..3 -> {0, 1}] }
Walls == { Face(axis, c, d) : axis \in 1..3, c \in {0, 2}, d \in {0, 1} }
\* one triangle over three corners
Triangles ==
    { << << Corner(t[1]), Corner(t[2]), Corner(t[3]) >> >> :
        t \in { u \in (0..7) \X (0..7) \X (0..7) : u[1] < u[2] /\ u[2] < u[3] } }
\* one triangle of no area: two of its vertices coincide
Slivers ==
    { << << Corner(p[1]), Corner(p[1]), Corner(p[2]) >> >> :
        p \in { q \in (0..7) \X (0..7) : q[1] # q[2] } }

Meshes == Cubes \cup Walls \cup Triangles \cup Slivers

CutPlanes ==
    { [type |-> "horizontal", height_m |-> h, position_m |-> 0, direction_deg |-> 0] :
        h \in -1..MaxOffset }
    \cup { [type |-> "vertical", height_m |-> 0, position_m |-> p, direction_deg |-> deg] :
        p \in -1..MaxOffset, deg \in {0, 90} }
    \cup { [type |-> "oblique", height_m |-> 0, position_m |-> 0, direction_deg |-> 0] }

OutputFormats == {"svg", "dxf", "png"}

----------------------------------------------------------------------------
(* model_section.py: the pure parts *)

Cos(deg) == IF deg = 0 THEN 1 ELSE 0
Sin(deg) == IF deg = 0 THEN 0 ELSE 1

\* plane_normal of the section function called for cut plane cp
PlaneNormal(cp) ==
    IF cp.type = "horizontal" THEN <<0, 0, 1>>
    ELSE << -Sin(cp.direction_deg), Cos(cp.direction_deg), 0 >>

\* plane_origin
PlaneOrigin(cp) ==
    IF cp.type = "horizontal" THEN <<0, 0, cp.height_m>>
    ELSE << cp.position_m * PlaneNormal(cp)[1], cp.position_m * PlaneNormal(cp)[2], 0 >>

\* signed distance of vertex v from the plane
Dist(v, cp) ==
    (v[1] - PlaneOrigin(cp)[1]) * PlaneNormal(cp)[1]
    + (v[2] - PlaneOrigin(cp)[2]) * PlaneNormal(cp)[2]
    + (v[3] - PlaneOrigin(cp)[3]) * PlaneNormal(cp)[3]

\* the point of the plane on the edge from a to b, which lie on opposite sides
CrossPoint(a, b, cp) ==
    [k \in 1..3 |-> (a[k] * Dist(b, cp) - b[k] * Dist(a, cp)) \div (Dist(b, cp) - Dist(a, cp))]

TrianglePlane_Always(t, cp) == << << t[1], t[2] >> >>

\* the intersection lines of one triangle with the plane: none or one.  A
\* triangle with vertices strictly on both sides gives the line between the
\* plane's points on its two crossing edges (or from its vertex on the plane to
\* the point on the opposite edge); a triangle with one edge on the plane and
\* the third vertex on the positive side gives that edge; a triangle that only
\* touches the plane in a vertex, or lies in it, gives nothing
TrianglePlane(t, cp) ==
    LET on    == { k \in 1..3 : Dist(t[k], cp) = 0 }
        above == { k \in 1..3 : Dist(t[k], cp) > 0 }
        below == { k \in 1..3 : Dist(t[k], cp) < 0 }
    IN  IF on = {} /\ above # {} /\ below # {}
        THEN LET lone   == CHOOSE k \in 1..3 : {k} = above \/ {k} = below
                 first  == CHOOSE k \in 1..3 \ {lone} : \A j \in 1..3 \ {lone} : k <= j
                 second == CHOOSE k \in 1..3 \ {lone} : k # first
             IN  << << CrossPoint(t[lone], t[first], cp), CrossPoint(t[lone], t[second], cp) >> >>
        ELSE IF Cardinality(on) = 1 /\ above # {} /\ below # {}
        THEN LET v == CHOOSE k \in on : TRUE
                 a == CHOOSE k \in above : TRUE
                 b == CHOOSE k \in below : TRUE
             IN  << << t[v], CrossPoint(t[a], t[b], cp) >> >>
        ELSE IF Cardinality(on) = 2 /\ above # {}
        THEN LET first  == CHOOSE k \in on : \A j \in on : k <= j
                 second == CHOOSE k \in on : k # first
             IN  << << t[first], t[second] >> >>
        ELSE <<>>

mesh_plane_FirstOnly(m, cp) == IF m = <<>> THEN <<>> ELSE TrianglePlane(Head(m), cp)

RECURSIVE mesh_plane(_, _)
\* trimesh.intersections.mesh_plane: the (N, 2, 3) array of the lines of all
\* triangles, in the order of the faces
mesh_plane(m, cp) ==
    IF m = <<>> THEN <<>> ELSE TrianglePlane(Head(m), cp) \o mesh_plane(Tail(m), cp)

\* a 3D point in the 2D frame of the cut: (x, y) for a horizontal cut, (distance
\* along the cut direction, z) for a vertical cut
Project(pt, cp) ==
    IF cp.type = "horizontal" THEN << pt[1], pt[2] >>
    ELSE << (pt[1] - PlaneOrigin(cp)[1]) * Cos(cp.direction_deg)
            + (pt[2] - PlaneOrigin(cp)[2]) * Sin(cp.direction_deg),
            pt[3] >>

\* lines 197-203 and 244-255: the segments of the lines
Segments(lines, cp) ==
    [k \in 1..Len(lines) |-> << Project(lines[k][1], cp), Project(lines[k][2], cp) >>]

\* all_points of lines 65-67
AllPoints(segs) == { segs[k][e] : k \in 1..Len(segs), e \in 1..2 }

BoundingBox_Padded(segs) ==
    LET xs == { pt[1] : pt \in AllPoints(segs) }
        ys == { pt[2] : pt \in AllPoints(segs) }
        lo(S) == CHOOSE v \in S : \A w \in S : v <= w
        hi(S) == CHOOSE v \in S : \A w \in S : v >= w
    IN  [min_x |-> lo(xs), min_y |-> lo(ys),
         max_x |-> IF hi(xs) = lo(xs) THEN lo(xs) + 2 ELSE hi(xs),
         max_y |-> IF hi(ys) = lo(ys) THEN lo(ys) + 2 ELSE hi(ys)]

\* bbox of lines 70-76
BoundingBox(segs) ==
    LET xs == { pt[1] : pt \in AllPoints(segs) }
        ys == { pt[2] : pt \in AllPoints(segs) }
        lo(S) == CHOOSE v \in S : \A w \in S : v <= w
        hi(S) == CHOOSE v \in S : \A w \in S : v >= w
    IN  [min_x |-> lo(xs), min_y |-> lo(ys), max_x |-> hi(xs), max_y |-> hi(ys)]

\* w and h of _write_svg, lines 261-267: an extent below 1e-6 becomes 1.0
SvgExtent(box) ==
    [w |-> IF box.max_x - box.min_x = 0 THEN 2 ELSE box.max_x - box.min_x,
     h |-> IF box.max_y - box.min_y = 0 THEN 2 ELSE box.max_y - box.min_y]

----------------------------------------------------------------------------
(* model_section.py: the run *)

\* the variables of point_cloud_process.py that model_section.py does not have
processing == <<operation, total_points, i, saved, segmenting, clustering>>

InitSection ==
    /\ pc = "main"
    /\ file_exists \in BOOLEAN
    /\ cut_plane \in CutPlanes
    /\ output_format \in OutputFormats
    /\ out_dir \in BOOLEAN
    /\ mesh = <<>>
    /\ cut_calls = 0
    /\ sections = <<>>
    /\ bbox = NoBox
    /\ written = "none"
    /\ drawing = NoDrawing
    /\ cut_failed = FALSE
    /\ stdout = <<>>
    /\ stderr = <<>>
    /\ operation = "none"
    /\ total_points = 0
    /\ i = 0
    /\ saved = FALSE
    /\ SegmentingIdle
    /\ ClusteringIdle

\* lines 17-32: the file is looked up, the output directory is made
SectionMain ==
    /\ pc = "main"
    /\ IF ~file_exists
       THEN /\ stdout' = Append(stdout, ErrorResponse("File not found"))
            /\ pc' = "done"
            /\ out_dir' = out_dir
       ELSE /\ stdout' = stdout
            /\ pc' = "load_mesh"
            /\ out_dir' = TRUE
    /\ UNCHANGED <<processing, file_exists, mesh, cut_plane, output_format,
                   cut_calls, sections, bbox, written, drawing, cut_failed,
                   stderr>>

\* a failed load that is not noticed: the run goes on to the cut
LoadMeshNone_Continues ==
    /\ pc = "load_mesh"
    /\ pc' = "cut"
    /\ UNCHANGED <<processing, file_exists, cutting, stdout, stderr>>

\* lines 37-40: _load_mesh returns None
LoadMeshNone ==
    /\ pc = "load_mesh"
    /\ stdout' = Append(stdout, ErrorResponse("Failed to load 3D model as mesh."))
    /\ pc' = "done"
    /\ UNCHANGED <<processing, file_exists, cutting, stderr>>

\* _load_ifc_as_mesh raises (line 130); the module's handler prints it
LoadMeshRaises ==
    /\ pc = "load_mesh"
    /\ Raise("load failed")
    /\ UNCHANGED <<processing, file_exists, cutting, stdout>>

\* line 37: the mesh is loaded
LoadMesh(m) ==
    /\ pc = "load_mesh"
    /\ mesh' = m
    /\ pc' = "cut"
    /\ UNCHANGED <<processing, file_exists, cut_plane, output_format, cut_calls,
                   sections, bbox, out_dir, written, drawing, cut_failed,
                   stdout, stderr>>

\* plane_type is one of those of lines 45 and 48
KnownPlaneType == cut_plane.type \in {"horizontal", "vertical"}

\* lines 52-54
UnknownPlaneType ==
    /\ pc = "cut"
    /\ ~KnownPlaneType
    /\ stdout' = Append(stdout, ErrorResponse("Unknown cut plane type"))
    /\ pc' = "done"
    /\ UNCHANGED <<processing, file_exists, cutting, stderr>>

\* _horizontal_section or _vertical_section, mesh_plane raises: lines 183-190,
\* 225-232
MeshPlaneRaises ==
    /\ pc = "cut"
    /\ KnownPlaneType
    /\ cut_calls' = cut_calls + 1
    /\ sections' = <<>>
    /\ cut_failed' = TRUE
    /\ pc' = "report"
    /\ UNCHANGED <<processing, file_exists, mesh, cut_plane, output_format, bbox,
                   out_dir, written, drawing, stdout, stderr>>

\* _horizontal_section or _vertical_section, mesh_plane returns
MeshPlaneReturns ==
    /\ pc = "cut"
    /\ KnownPlaneType
    /\ cut_calls' = cut_calls + 1
    /\ sections' = Segments(mesh_plane(mesh, cut_plane), cut_plane)
    /\ cut_failed' = FALSE
    /\ pc' = "report"
    /\ UNCHANGED <<processing, file_exists, mesh, cut_plane, output_format, bbox,
                   out_dir, written, drawing, stdout, stderr>>

\* lines 56-62
NoIntersections ==
    /\ pc = "report"
    /\ sections = <<>>
    /\ stdout' = Append(stdout,
                        [kind |-> "result",
                         output_path |-> "abs_output",
                         contour_segments |-> 0,
                         warning |-> "No intersections found at the specified cut plane."])
    /\ pc' = "done"
    /\ UNCHANGED <<processing, file_exists, cutting, stderr>>

SectionResult(box) ==
    [kind |-> "result",
     output_path |-> "abs_output",
     contour_segments |-> Len(sections),
     bounding_box |-> box,
     cut_plane |-> cut_plane]

\* lines 64-96: the bounding box, the file, the response
WriteOutput ==
    /\ pc = "report"
    /\ sections # <<>>
    /\ output_format \in {"svg", "dxf"}
    /\ bbox' = BoundingBox(sections)
    /\ written' = output_format
    /\ drawing' = IF output_format = "svg" THEN SvgExtent(bbox') ELSE drawing
    /\ stdout' = Append(stdout, SectionResult(bbox'))
    /\ pc' = "done"
    /\ UNCHANGED <<processing, file_exists, mesh, cut_plane, output_format,
                   cut_calls, sections, out_dir, cut_failed, stderr>>

\* lines 64-80 or 82, the writer raises; the module's handler prints it
WriteRaises ==
    /\ pc = "report"
    /\ sections # <<>>
    /\ output_format \in {"svg", "dxf"}
    /\ bbox' = BoundingBox(sections)
    /\ Raise("write failed")
    /\ UNCHANGED <<processing, file_exists, mesh, cut_plane, output_format,
                   cut_calls, sections, out_dir, written, drawing, cut_failed,
                   stdout>>

\* lines 64-85
UnsupportedFormat ==
    /\ pc = "report"
    /\ sections # <<>>
    /\ output_format \notin {"svg", "dxf"}
    /\ bbox' = BoundingBox(sections)
    /\ stdout' = Append(stdout, ErrorResponse("Unsupported output format"))
    /\ pc' = "done"
    /\ UNCHANGED <<processing, file_exists, mesh, cut_plane, output_format,
                   cut_calls, sections, out_dir, written, drawing, cut_failed,
                   stderr>>

NextSection ==
    \/ SectionMain
    \/ LoadMeshNone
    \/ LoadMeshRaises
    \/ pc = "load_mesh" /\ \E m \in Meshes : LoadMesh(m)
    \/ UnknownPlaneType
    \/ MeshPlaneRaises
    \/ MeshPlaneReturns
    \/ NoIntersections
    \/ WriteOutput
    \/ WriteRaises
    \/ UnsupportedFormat

SpecSection == InitSection /\ [][NextSection]_vars

----------------------------------------------------------------------------
(* Properties of model_section.py *)

\* the unit cube was cut horizontally at height 0.5 and the section was written
CubeCutAtHalf ==
    /\ pc = "done"
    /\ mesh \in Cubes
    /\ cut_plane.type = "horizontal" /\ cut_plane.height_m = 1
    /\ written # "none"

\* the segments as unordered pairs of endpoints
Edges == { { sections[k][1], sections[k][2] } : k \in 1..Len(sections) }

UnitSquareBox == [min_x |-> 0, min_y |-> 0, max_x |-> 2, max_y |-> 2]

\* the four sides of the square with corners (0,0) and (1,1)
SquareSides ==
    { { <<0, 0>>, <<2, 0>> }, { <<2, 0>>, <<2, 2>> },
      { <<2, 2>>, <<0, 2>> }, { <<0, 2>>, <<0, 0>> } }

\* the eight halves of those sides
SquareHalfSides ==
    { { <<0, 0>>, <<1, 0>> }, { <<1, 0>>, <<2, 0>> },
      { <<2, 0>>, <<2, 1>> }, { <<2, 1>>, <<2, 2>> },
      { <<2, 2>>, <<1, 2>> }, { <<1, 2>>, <<0, 2>> },
      { <<0, 2>>, <<0, 1>> }, { <<0, 1>>, <<0, 0>> } }

\* C16 as stated: the unit cube cut horizontally at 0.5 yields exactly 4
\* segments, the sides of the square of side 1, with bounding box 0, 0, 1, 1
C16_CubeFourSegments ==
    CubeCutAtHalf =>
        /\ Len(sections) = 4
        /\ stdout[1].contour_segments = 4
        /\ Edges = SquareSides
        /\ stdout[1].bounding_box = UnitSquareBox

\* C16, amended: the unit cube cut horizontally at 0.5 yields exactly 8
\* segments, one per triangle of the four side faces; they are the eight
\* halves of the sides of the square of side 1, and the bounding box is
\* 0, 0, 1, 1
C16_CubeEightSegments ==
    CubeCutAtHalf =>
        /\ Len(sections) = 8
        /\ Len(stdout) = 1
        /\ stdout[1].contour_segments = 8
        /\ Edges = SquareHalfSides
        /\ stdout[1].bounding_box = UnitSquareBox

C16_Witness ==
    /\ CubeCutAtHalf
    /\ Len(stdout) = 1
    /\ "bounding_box" \in DOMAIN stdout[1]

\* every triangle of the mesh lies strictly on one side of the cut plane
CutMissesMesh ==
    /\ mesh # <<>>
    /\ cut_plane.type \in {"horizontal", "vertical"}
    /\ \A k \in 1..Len(mesh) :
          \/ \A v \in 1..3 : Dist(mesh[k][v], cut_plane) > 0
          \/ \A v \in 1..3 : Dist(mesh[k][v], cut_plane) < 0

\* C17: when no triangle intersects the cut plane, the run ends with one
\* response that has contour_segments = 0 and the 'no intersections' warning,
\* no error field and no bounding box; nothing is printed as a failure and no
\* file is written
C17_EmptyCutIsNotAnError ==
    (pc = "done" /\ CutMissesMesh) =>
        /\ stderr = <<>>
        /\ Len(stdout) = 1
        /\ "error" \notin DOMAIN stdout[1]
        /\ "bounding_box" \notin DOMAIN stdout[1]
        /\ stdout[1].contour_segments = 0
        /\ stdout[1].warning = "No intersections found at the specified cut plane."
        /\ written = "none"

\* the unit cube, cut horizontally at height 2.0, has been answered
C17_Witness ==
    /\ pc = "done"
    /\ mesh \in Cubes
    /\ cut_plane.type = "horizontal" /\ cut_plane.height_m = 4
    /\ CutMissesMesh
    /\ Len(stdout) = 1

\* with an unknown cut-plane type, a step loads no mesh, computes no
\* intersection and creates neither the output directory nor the file
UnknownTypeTouchesNothing ==
    cut_plane.type \notin {"horizontal", "vertical"} =>
        /\ mesh' = mesh
        /\ cut_calls' = cut_calls
        /\ out_dir' = out_dir
        /\ written' = written

\* C18: a request with an unknown cut-plane type is answered with the error
\* before the mesh is loaded, before any intersection is computed and before
\* any output directory or file is created
C18_UnknownTypeReportedFirst == [][UnknownTypeTouchesNothing]_vars

\* the run ended with the result of a written section
SectionWritten ==
    /\ pc = "done"
    /\ written \in {"svg", "dxf"}
    /\ Len(stdout) = 1
    /\ "bounding_box" \in DOMAIN stdout[1]

\* box.min_x .. box.max_x and box.min_y .. box.max_y are the extrema of the
\* endpoints of the segments
IsExtrema(box) ==
    /\ \A pt \in AllPoints(sections) :
          /\ box.min_x <= pt[1] /\ pt[1] <= box.max_x
          /\ box.min_y <= pt[2] /\ pt[2] <= box.max_y
    /\ \E pt \in AllPoints(sections) : pt[1] = box.min_x
    /\ \E pt \in AllPoints(sections) : pt[1] = box.max_x
    /\ \E pt \in AllPoints(sections) : pt[2] = box.min_y
    /\ \E pt \in AllPoints(sections) : pt[2] = box.max_y

SameX == \A p, q \in AllPoints(sections) : p[1] = q[1]
SameY == \A p, q \in AllPoints(sections) : p[2] = q[2]

\* C19 as stated: the reported box is the extrema of the endpoints, except
\* that a dimension in which all endpoints coincide is expanded, so that
\* max_x > min_x and max_y > min_y, for SVG and for DXF output
C19_ReportedBoxExpanded ==
    SectionWritten =>
        /\ ~SameX /\ ~SameY => IsExtrema(stdout[1].bounding_box)
        /\ stdout[1].bounding_box.max_x > stdout[1].bounding_box.min_x
        /\ stdout[1].bounding_box.max_y > stdout[1].bounding_box.min_y

\* C19, amended: the reported box is exactly the extrema of the endpoints, for
\* SVG and for DXF output, so max_x = min_x when all endpoints share their x
\* (and likewise for y); only the width and height by which _write_svg scales
\* the drawing are expanded, to 1.0, when they are zero
C19_ReportedBoxIsExtrema ==
    SectionWritten =>
        /\ IsExtrema(stdout[1].bounding_box)
        /\ SameX => stdout[1].bounding_box.max_x = stdout[1].bounding_box.min_x
        /\ SameY => stdout[1].bounding_box.max_y = stdout[1].bounding_box.min_y
        /\ written = "svg" =>
              /\ drawing.w > 0 /\ drawing.h > 0
              /\ drawing.w = IF SameX THEN 2
                             ELSE stdout[1].bounding_box.max_x - stdout[1].bounding_box.min_x
              /\ drawing.h = IF SameY THEN 2
                             ELSE stdout[1].bounding_box.max_y - stdout[1].bounding_box.min_y
        /\ written = "dxf" => drawing = NoDrawing

\* a section whose endpoints share their x, and are not one point, was written
\* as SVG
C19_Witness ==
    /\ SectionWritten
    /\ written = "svg"
    /\ SameX /\ ~SameY

\* C20 as stated: every segment has exactly two endpoints, and no segment
\* whose two endpoints coincide is in the segment list or counted in
\* contour_segments
C20_NoDegenerateSegments ==
    /\ \A k \in 1..Len(sections) :
          /\ Len(sections[k]) = 2
          /\ sections[k][1] # sections[k][2]
    /\ SectionWritten =>
          stdout[1].contour_segments =
              Cardinality({ k \in 1..Len(sections) : sections[k][1] # sections[k][2] })

----------------------------------------------------------------------------
(* The two entry points together: every run of point_cloud_process.main
   (segment_planes, extract_floors, or an unknown operation) and of
   model_section.main *)

\* the clouds of the runs of extract_floors have at most MaxEntryLevels levels
MaxEntryLevels == 2

InitEntryPoints == Init \/ InitFloors \/ InitSection

NextEntryPoints ==
    \/ operation \in {"segment_planes", "unknown"} /\ Main
    \/ LoadNone
    \/ LoadRaises
    \/ pc = "load" /\ \E n \in CloudSizes : LoadCloud(n)
    \/ LoopExit
    \/ SegmentPlaneCall
    \/ SegmentPlaneRaises
    \/ SegmentPlaneReturns
    \/ Finish
    \/ MainFloors
    \/ FloorsLoadNone
    \/ FloorsLoadRaises
    \/ pc = "floors_load" /\ \E pts \in { q \in PointSets : Len(q) <= MaxEntryLevels } :
                                FloorsLoad(pts)
    \/ FilterHorizontal
    \/ Cluster
    \/ BinStep
    \/ FloorsFinish
    \/ operation = "none" /\ SectionMain
    \/ LoadMeshNone
    \/ LoadMeshRaises
    \/ pc = "load_mesh" /\ \E m \in Meshes : LoadMesh(m)
    \/ UnknownPlaneType
    \/ MeshPlaneRaises
    \/ MeshPlaneReturns
    \/ NoIntersections
    \/ WriteOutput
    \/ WriteRaises
    \/ UnsupportedFormat

SpecEntryPoints == InitEntryPoints /\ [][NextEntryPoints]_vars

\* everything the run printed, on stdout and on stderr
Responses == stdout \o stderr

\* the run ended without its input: the file is missing, or the loader returned
\* nothing or raised
InputUnavailable ==
    /\ pc = "done"
    /\ \/ ~file_exists
       \/ operation \in {"segment_planes", "extract_floors"} /\ pcd = Unset
       \/ operation = "none" /\ mesh = <<>>

NothingComputed ==
    /\ fit_calls = <<>> /\ planes = <<>> /\ inlier_clouds = <<>>
    /\ horizontal_z = <<>> /\ hist = <<>> /\ floors = <<>>
    /\ cut_calls = 0 /\ sections = <<>> /\ bbox = NoBox

NothingWritten == written = "none" /\ ~saved

\* C21: when the input file does not exist or the mesh / point cloud cannot be
\* loaded, the run prints one response, an error descriptor and nothing else;
\* no plane is fitted, no histogram or floor is built, no cut is made, and no
\* output file is written.
C21_InputUnavailableIsFatal ==
    InputUnavailable =>
        /\ Len(Responses) = 1
        /\ Responses[1].kind = "error"
        /\ DOMAIN Responses[1] = {"kind", "error"}
        /\ NothingComputed
        /\ NothingWritten

\* the model file exists and its loader raises, after the output directory was
\* made
C21_Witness ==
    /\ InputUnavailable
    /\ operation = "none"
    /\ file_exists
    /\ stderr # <<>>
    /\ out_dir

IsResponse(r) ==
    /\ r.kind \in {"result", "error"}
    /\ r.kind = "error" <=> "error" \in DOMAIN r

\* C22: every run of point_cloud_process.main and of model_section.main prints
\* exactly one JSON object, a result or an error descriptor, whichever path it
\* takes: nothing is printed before the run ends, the run can always go on until
\* it ends, and when it has ended one object has been printed (on stdout, or on
\* stderr by the module's exception handler).
C22_ExactlyOneResponse ==
    /\ pc # "done" => Responses = <<>> /\ ENABLED NextEntryPoints
    /\ pc = "done" => Len(Responses) = 1 /\ IsResponse(Responses[1])

\* the plane fit raised after a plane had been recorded: the one response is the
\* handler's
C22_Witness ==
    /\ pc = "done"
    /\ planes # <<>>
    /\ stdout = <<>>
    /\ Len(stderr) = 1

----------------------------------------------------------------------------
(* Claims on the bins of op_extract_floors *)

\* the loop is at bin i and this step adds a floor or replaces the last one
BinYieldsFloor == pc = "bins" /\ floors' # floors

\* bin b is the first or the last, or neither neighbour holds more points
NoLargerNeighbour(b) ==
    \/ b = 0
    \/ b = Len(hist) - 1
    \/ hist[b] <= hist[b + 1] /\ hist[b + 2] <= hist[b + 1]

\* C23 as stated: a bin yields a floor only if its count strictly exceeds
\* max(50, 2% of the horizontal points) and, unless it is the first or the last
\* bin, neither neighbour holds more points.
C23_StrictlyAboveThreshold ==
    [][BinYieldsFloor =>
          /\ hist[i + 1] > ClaimedPeakThreshold(CountOf(horizontal_z))
          /\ NoLargerNeighbour(i)]_vars

\* C23, amended: a bin yields a floor only if its count is at least
\* max(50, 2% of the horizontal points) and, unless it is the first or the last
\* bin, neither neighbour holds more points.
C23_AtLeastThreshold ==
    [][BinYieldsFloor =>
          /\ hist[i + 1] >= ClaimedPeakThreshold(CountOf(horizontal_z))
          /\ NoLargerNeighbour(i)]_vars

\* a floor made from a bin whose count equals the threshold
C23_Witness ==
    /\ hist # <<>>
    /\ \E k \in 1..Len(floors) :
          /\ floors[k].point_count = ClaimedPeakThreshold(CountOf(horizontal_z))
          /\ \E b \in 1..Len(hist) : hist[b] = floors[k].point_count

\* the points np.histogram counts in bin b
BinPoints(b) ==
    SelectSeq(horizontal_z, LAMBDA lev : InBin_Closed(lev.z, b, horizontal_z, Len(hist)))

\* C24: every accepted bin, the last one included, yields a candidate whose
\* point_count is the bin's histogram count and whose elevation is the mean of
\* the points counted in the bin; the candidate is appended or merged, never
\* dropped.
C24_CandidateOfEveryAcceptedBin ==
    [][(pc = "bins" /\ IsCandidate(hist, i, min_peak_count)) =>
          /\ CountOf(BinPoints(i)) = hist[i + 1]
          /\ floors' = AddFloor(floors, SumOf(BinPoints(i)), hist[i + 1])]_vars

\* the candidate of bin b: the points of the mask of line 514
Candidate(b) == Masked(horizontal_z, b, Len(hist))

\* the step of bin i, whose candidate c is within 0.3 of the last floor: no floor
\* is added, and the last floor takes the elevation and the count of c when c
\* holds more points, and keeps its own otherwise
MergeStep(c) ==
    LET n == Len(floors)
        last == floors[n]
    IN  Abs(SumOf(c) - last.height_m * CountOf(c)) < 3000 * CountOf(c) =>
           /\ Len(floors') = n
           /\ \A k \in 1..(n - 1) : floors'[k] = floors[k]
           /\ floors'[n].point_count = Max(CountOf(c), last.point_count)
           /\ floors'[n].height_m = IF CountOf(c) > last.point_count
                                    THEN Round4(SumOf(c), CountOf(c))
                                    ELSE last.height_m

\* C25: the candidates come in ascending elevation; a candidate within 0.3 of
\* the last floor adds no floor, and the last floor ends with the elevation and
\* the count of whichever holds more points (the earlier on a tie). So every
\* floor the loop ends with carries the count and the elevation of one of the
\* accepted bins, and no accepted bin holds more points than every floor.
C25_MergeKeepsLarger ==
    /\ [][(/\ pc = "bins"
            /\ floors # <<>>
            /\ IsCandidate(hist, i, min_peak_count)
            /\ CountOf(Candidate(i)) > 0) =>
             /\ Round4(SumOf(Candidate(i)), CountOf(Candidate(i)))
                    >= floors[Len(floors)].height_m
             /\ MergeStep(Candidate(i))]_vars
    /\ []((hist # <<>> /\ pc = "sort") =>
             LET merged == { [point_count |-> CountOf(Candidate(b)),
                              height_m |-> Round4(SumOf(Candidate(b)),
                                                  CountOf(Candidate(b)))] :
                             b \in AcceptedBins }
             IN  /\ \A k \in 1..Len(floors) :
                       [point_count |-> floors[k].point_count,
                        height_m |-> floors[k].height_m] \in merged
                 /\ \A c \in merged : \E k \in 1..Len(floors) :
                       c.point_count <= floors[k].point_count)

\* two accepted bins of equal count were merged: the one floor is the earlier
C25_Witness ==
    /\ pc = "sort"
    /\ Len(floors) = 1
    /\ Cardinality(AcceptedBins) = 2
    /\ \A b \in AcceptedBins : CountOf(Candidate(b)) = floors[1].point_count
    /\ \E b \in AcceptedBins :
          /\ floors[1].height_m = Round4(SumOf(Candidate(b)), CountOf(Candidate(b)))
          /\ \E c \in AcceptedBins : c > b

\* the histogram was built: the range of the horizontal points is 0.1 or more
HistogramBuilt == hist # <<>>

\* C26 as stated: the number of bins is max(10, ceil((zmax - zmin) / 0.1)).
C26_BinsRoundedUp ==
    HistogramBuilt =>
        Len(hist) = Max(10, (ZRange(horizontal_z) + 999) \div 1000)

\* C26, amended: the number of bins is max(10, floor((zmax - zmin) / 0.1)).
C26_BinsRoundedDown ==
    HistogramBuilt =>
        Len(hist) = Max(10, ZRange(horizontal_z) \div 1000)

\* a range of 2.85: 28 bins
C26_Witness ==
    /\ HistogramBuilt
    /\ ZRange(horizontal_z) = 28500
    /\ Len(hist) = 28

\* the run of extract_floors ended for want of data: the loaded cloud is empty,
\* or none of its points is horizontal, or none of the bins of the horizontal
\* points holds enough of them
EmptyCloud == pcd = <<>>
NoBinSupported ==
    /\ hist # <<>>
    /\ \A b \in 1..Len(hist) : hist[b] < ClaimedPeakThreshold(CountOf(horizontal_z))
InsufficientData ==
    /\ operation = "extract_floors"
    /\ pc = "done"
    /\ EmptyCloud \/ NoHorizontalPoints \/ NoBinSupported

\* C27: every insufficient-data outcome of extract_floors is a result that is
\* not an error: the one response has an empty floor list and a message (or
\* status) field that explains it, and no error field.
C27_InsufficientDataIsExplained ==
    InsufficientData =>
        /\ stderr = <<>>
        /\ Len(stdout) = 1
        /\ "error" \notin DOMAIN stdout[1]
        /\ "floors" \in DOMAIN stdout[1]
        /\ stdout[1].floors = <<>>
        /\ {"message", "status"} \cap DOMAIN stdout[1] # {}

----------------------------------------------------------------------------
(* Claims on the failures of model_section.py *)

\* the response to a cut plane that crosses no triangle of the mesh
EmptyCutResponse ==
    [kind |-> "result",
     output_path |-> "abs_output",
     contour_segments |-> 0,
     warning |-> "No intersections found at the specified cut plane."]

\* C28: when mesh_plane raises during the cut, the response of the run is not
\* the response of a cut that succeeds with zero segments.
C28_FailedCutIsDistinguished ==
    (pc = "done" /\ cut_failed) => stdout # << EmptyCutResponse >>

\* the model file exists and the output format is neither svg nor dxf
UnsupportedOutputFormat == file_exists /\ output_format \notin {"svg", "dxf"}

\* C29: with an unsupported output format the mesh is never loaded and never
\* cut, and for every mesh and every horizontal or vertical cut plane, those
\* that cross nothing included, the response of the run is the 'Unsupported
\* output format' error.
C29_FormatRejectedFirst ==
    UnsupportedOutputFormat =>
        /\ mesh = <<>>
        /\ cut_calls = 0
        /\ (pc = "done" /\ mesh # <<>> /\ KnownPlaneType) =>
               /\ stdout = << ErrorResponse("Unsupported output format") >>
               /\ stderr = <<>>

----------------------------------------------------------------------------
(* Claim on the order of the planes of op_segment_planes *)

NonIncreasing(ps) ==
    /\ \A k \in 1..Len(ps) : ps[k].plane_index = k - 1
    /\ \A k \in 1..(Len(ps) - 1) : ps[k].inlier_count >= ps[k + 1].inlier_count

\* C30: with a plane fit that returns the best-supported plane of `remaining`
\* in each round, the inlier_count of the PlaneRecords does not increase with
\* plane_index, in the list being built and in every result.
C30_LargestFirst ==
    /\ NonIncreasing(planes)
    /\ \A r \in Results : NonIncreasing(r.planes)

\* two planes that share points: the second is recorded with the points the
\* first left of it, fewer than the first holds
C30_Witness ==
    /\ pc = "done"
    /\ run = 1
    /\ Len(planes) = 2
    /\ planes[1].inlier_count > planes[2].inlier_count
    /\ \A p \in DOMAIN scene.planes :
          planes[2].inlier_count < NumPoints(InlierIndices(pcd, scene.planes[p].ids))
    /\ \E r \in Results : r.planes = planes

====
